---- MODULE Spec2Model ----
(***************************************************************************)
(* A model of the elevenlabs_stt client: the client's constructors, the    *)
(* fluent SpeechToTextBuilder, the multipart form execute_stt builds, the  *)
(* single HTTP call, and the mapping of the reply to Result<STTResponse,   *)
(* ElevenLabsSTTError>.                                                    *)
(*                                                                         *)
(* Option<T> is a sequence of length at most one: None is <<>> and Some(v) *)
(* is <<v>>.  An f32 is its value in hundredths (22 is 0.22).              *)
(***************************************************************************)
EXTENDS Naturals, Sequences, FiniteSets, TLC

VARIABLES
    pc,          \* where the caller is: start, ready, building, awaiting_send, responded, done
    client,      \* the ElevenLabsSTTClient (api_key, base_url), None before construction
    ctor,        \* how the client was constructed and from which arguments
    builder,     \* the SpeechToTextBuilder being chained, None when there is none
    file_arg,    \* the payload passed to speech_to_text
    history,     \* the setter calls made on the builder, in order: <<setter, value>>
    request,     \* the STTRequest finalized by execute(), alive while the call is in flight
    sent,        \* the HTTP request in flight
    http_calls,  \* how many times send() was invoked for the current execute()
    response,    \* the reqwest Response (status, body) once the server answered
    steps,       \* the steps of execute_stt performed after send() in the current call
    result,      \* what execute() returned
    calls,       \* the concurrent calls made from the one client, each with its own state
    codec,       \* an STTResponse being encoded to JSON and decoded back
    shown        \* an ElevenLabsSTTError being formatted by Display

vars == <<pc, client, ctor, builder, file_arg, history, request, sent, http_calls,
          response, steps, result, calls, codec, shown>>

\* What the calls made one after the other leave alone.
others == <<calls, codec, shown>>

----------------------------------------------------------------------------
(* Bounds and input domains *)

MaxSetterCalls == 2
NumCalls == 2
MaxWords == 1
MaxCharacters == 1

None == <<>>
Some(v) == <<v>>
IsSome(o) == o # <<>>
Unwrap(o) == o[1]

Keys == {"k1", "test-key"}
Urls == {"http://localhost:8080/v1"}
Payloads == {<<>>, <<73, 68, 51>>}

SCRIBE_V1 == "scribe_v1"
DefaultBaseUrl == "https://api.elevenlabs.io/v1"

ModelIds == {SCRIBE_V1, "scribe_v1_experimental"}
LanguageCodes == {"en", "fr"}
SpeakerCounts == {2, 33}
Granularities == {"word", "character"}
Thresholds == {22, 50}
StorageUrls == {"https://bucket/a.mp3", "https://bucket/b.wav"}
WebhookIds == {"wh1", "wh2"}
Temperatures == {20, 250}
Seeds == {0, 4000}
Metadata == {"{}", "{\"job\":1}"}

----------------------------------------------------------------------------
(* String forms: bool::to_string, u32::to_string, f32::to_string *)

Digit(d) == CASE d = 0 -> "0" [] d = 1 -> "1" [] d = 2 -> "2" [] d = 3 -> "3"
              [] d = 4 -> "4" [] d = 5 -> "5" [] d = 6 -> "6" [] d = 7 -> "7"
              [] d = 8 -> "8" [] d = 9 -> "9"

RECURSIVE U32ToString(_)
U32ToString(n) == IF n < 10 THEN Digit(n) ELSE U32ToString(n \div 10) \o Digit(n % 10)

BoolToString(b) == IF b THEN "true" ELSE "false"

\* Display of an f32 prints the shortest decimal that reads back as the same
\* value: no fraction for a whole number, no trailing zero.
F32ToString(h) ==
    LET whole == U32ToString(h \div 100)
        frac == h % 100
    IN IF frac = 0 THEN whole
       ELSE IF frac % 10 = 0 THEN whole \o "." \o Digit(frac \div 10)
       ELSE whole \o "." \o Digit(frac \div 10) \o Digit(frac % 10)

\* Option::map with each of the conversions
MapBoolToString(o) == IF IsSome(o) THEN Some(BoolToString(Unwrap(o))) ELSE None
MapU32ToString(o) == IF IsSome(o) THEN Some(U32ToString(Unwrap(o))) ELSE None
MapF32ToString(o) == IF IsSome(o) THEN Some(F32ToString(Unwrap(o))) ELSE None
MapString(o) == IF IsSome(o) THEN Some(Unwrap(o)) ELSE None

----------------------------------------------------------------------------
(* The client *)

NewClient(api_key) == [api_key |-> api_key, base_url |-> DefaultBaseUrl]

ClientWithBaseUrl(api_key, base_url) == [api_key |-> api_key, base_url |-> base_url]

\* Faulty variant: the builder gets a client made afresh from the key, not a clone.
NewBuilder_FreshClient(c, file) ==
    [client |-> NewClient(c.api_key), file |-> file, model_id |-> None,
     language_code |-> None, tag_audio_events |-> None, num_speakers |-> None,
     timestamps_granularity |-> None, diarize |-> None, diarization_threshold |-> None,
     cloud_storage_url |-> None, webhook |-> None, webhook_id |-> None,
     temperature |-> None, seed |-> None, use_multi_channel |-> None,
     webhook_metadata |-> None]

NewBuilder(c, file) ==
    [client |-> c, file |-> file, model_id |-> None, language_code |-> None,
     tag_audio_events |-> None, num_speakers |-> None, timestamps_granularity |-> None,
     diarize |-> None, diarization_threshold |-> None, cloud_storage_url |-> None,
     webhook |-> None, webhook_id |-> None, temperature |-> None, seed |-> None,
     use_multi_channel |-> None, webhook_metadata |-> None]

new ==
    /\ pc = "start"
    /\ \E k \in Keys :
          /\ client' = Some(NewClient(k))
          /\ ctor' = Some([kind |-> "new", api_key |-> k, base_url |-> None])
    /\ pc' = "ready"
    /\ UNCHANGED <<builder, file_arg, history, request, sent, http_calls, response,
                   steps, result>>
    /\ UNCHANGED others

with_base_url ==
    /\ pc = "start"
    /\ \E k \in Keys, u \in Urls :
          /\ client' = Some(ClientWithBaseUrl(k, u))
          /\ ctor' = Some([kind |-> "with_base_url", api_key |-> k, base_url |-> Some(u)])
    /\ pc' = "ready"
    /\ UNCHANGED <<builder, file_arg, history, request, sent, http_calls, response,
                   steps, result>>
    /\ UNCHANGED others

\* client.speech_to_text(file): a builder seeded with a clone of the client.  A
\* client that has returned from one call can start the next.
speech_to_text ==
    /\ pc \in {"ready", "done"}
    /\ \E f \in {None} \cup {Some(p) : p \in Payloads} :
          /\ builder' = Some(NewBuilder(Unwrap(client), f))
          /\ file_arg' = f
    /\ history' = <<>>
    /\ request' = None
    /\ sent' = None
    /\ http_calls' = 0
    /\ response' = None
    /\ steps' = {}
    /\ result' = None
    /\ pc' = "building"
    /\ UNCHANGED <<client, ctor>>
    /\ UNCHANGED others

----------------------------------------------------------------------------
(* The builder's setters: each takes the builder by value, stores Some(value) *)
(* in its own field and returns the builder.                                  *)

CanSet == pc = "building" /\ Len(history) < MaxSetterCalls

Chained(b, name, v) ==
    /\ builder' = Some(b)
    /\ history' = Append(history, <<name, v>>)
    /\ UNCHANGED <<pc, client, ctor, file_arg, request, sent, http_calls, response,
                   steps, result>>
    /\ UNCHANGED others

SetModel(b, v) == [b EXCEPT !.model_id = Some(v)]
\* Faulty variant: a value already set is kept.
SetLanguageCode_KeepsFirst(b, v) ==
    IF IsSome(b.language_code) THEN b ELSE [b EXCEPT !.language_code = Some(v)]

SetLanguageCode(b, v) == [b EXCEPT !.language_code = Some(v)]
SetTagAudioEvents(b, v) == [b EXCEPT !.tag_audio_events = Some(v)]
SetNumSpeakers(b, v) == [b EXCEPT !.num_speakers = Some(v)]
SetTimestampsGranularity(b, v) == [b EXCEPT !.timestamps_granularity = Some(v)]
SetDiarize(b, v) == [b EXCEPT !.diarize = Some(v)]
SetDiarizationThreshold(b, v) == [b EXCEPT !.diarization_threshold = Some(v)]
SetCloudStorageUrl(b, v) == [b EXCEPT !.cloud_storage_url = Some(v)]
SetWebhook(b, v) == [b EXCEPT !.webhook = Some(v)]
SetWebhookId(b, v) == [b EXCEPT !.webhook_id = Some(v)]
SetTemperature(b, v) == [b EXCEPT !.temperature = Some(v)]
SetSeed(b, v) == [b EXCEPT !.seed = Some(v)]
SetUseMultiChannel(b, v) == [b EXCEPT !.use_multi_channel = Some(v)]
SetWebhookMetadata(b, v) == [b EXCEPT !.webhook_metadata = Some(v)]

model ==
    CanSet /\ \E v \in ModelIds : Chained(SetModel(Unwrap(builder), v), "model", v)

language_code ==
    CanSet /\ \E v \in LanguageCodes :
        Chained(SetLanguageCode(Unwrap(builder), v), "language_code", v)

tag_audio_events ==
    CanSet /\ \E v \in BOOLEAN :
        Chained(SetTagAudioEvents(Unwrap(builder), v), "tag_audio_events", v)

num_speakers ==
    CanSet /\ \E v \in SpeakerCounts :
        Chained(SetNumSpeakers(Unwrap(builder), v), "num_speakers", v)

timestamps_granularity ==
    CanSet /\ \E v \in Granularities :
        Chained(SetTimestampsGranularity(Unwrap(builder), v), "timestamps_granularity", v)

diarize ==
    CanSet /\ \E v \in BOOLEAN : Chained(SetDiarize(Unwrap(builder), v), "diarize", v)

diarization_threshold ==
    CanSet /\ \E v \in Thresholds :
        Chained(SetDiarizationThreshold(Unwrap(builder), v), "diarization_threshold", v)

cloud_storage_url ==
    CanSet /\ \E v \in StorageUrls :
        Chained(SetCloudStorageUrl(Unwrap(builder), v), "cloud_storage_url", v)

webhook ==
    CanSet /\ \E v \in BOOLEAN : Chained(SetWebhook(Unwrap(builder), v), "webhook", v)

webhook_id ==
    CanSet /\ \E v \in WebhookIds :
        Chained(SetWebhookId(Unwrap(builder), v), "webhook_id", v)

temperature ==
    CanSet /\ \E v \in Temperatures :
        Chained(SetTemperature(Unwrap(builder), v), "temperature", v)

seed ==
    CanSet /\ \E v \in Seeds : Chained(SetSeed(Unwrap(builder), v), "seed", v)

use_multi_channel ==
    CanSet /\ \E v \in BOOLEAN :
        Chained(SetUseMultiChannel(Unwrap(builder), v), "use_multi_channel", v)

webhook_metadata ==
    CanSet /\ \E v \in Metadata :
        Chained(SetWebhookMetadata(Unwrap(builder), v), "webhook_metadata", v)

----------------------------------------------------------------------------
(* SpeechToTextBuilder::execute: the builder becomes the STTRequest *)

\* Faulty variant: the value set is ignored and the default always taken.
unwrap_or_else_AlwaysDefault(o, default) == default

\* Option<String>::unwrap_or_else
unwrap_or_else(o, default) == IF IsSome(o) THEN Unwrap(o) ELSE default

BuildRequest(b) ==
    [file |-> b.file,
     model_id |-> unwrap_or_else(b.model_id, SCRIBE_V1),
     language_code |-> b.language_code,
     tag_audio_events |-> b.tag_audio_events,
     num_speakers |-> b.num_speakers,
     timestamps_granularity |-> b.timestamps_granularity,
     diarize |-> b.diarize,
     diarization_threshold |-> b.diarization_threshold,
     cloud_storage_url |-> b.cloud_storage_url,
     webhook |-> b.webhook,
     webhook_id |-> b.webhook_id,
     temperature |-> b.temperature,
     seed |-> b.seed,
     use_multi_channel |-> b.use_multi_channel,
     webhook_metadata |-> b.webhook_metadata]

----------------------------------------------------------------------------
(* reqwest values: errors, multipart parts and forms *)

\* A reqwest::Error: what failed, and the HTTP status it carries (only an error
\* made from a received status carries one).
ReqwestError(what) == [what |-> what, status |-> None]

TextPart(name, value) ==
    [name |-> name, text |-> Some(value), bytes |-> None, file_name |-> None,
     mime |-> None]

BytesPart(data) ==
    [name |-> "", text |-> None, bytes |-> Some(data), file_name |-> None, mime |-> None]

file_name(part, n) == [part EXCEPT !.file_name = Some(n)]

\* Part::mime_str parses the string as a MIME type: type "/" subtype.
WellFormedMimes == {"application/octet-stream", "audio/mpeg", "text/plain"}

\* Faulty variant: the MIME string is refused.
mime_str_Refused(part, m) == [ok |-> FALSE, err |-> ReqwestError("builder")]

mime_str(part, m) ==
    IF m \in WellFormedMimes
    THEN [ok |-> TRUE, part |-> [part EXCEPT !.mime = Some(m)]]
    ELSE [ok |-> FALSE, err |-> ReqwestError("builder")]

FormText(form, name, value) == Append(form, TextPart(name, value))
FormPart(form, name, part) == Append(form, [part EXCEPT !.name = name])

\* The vec of (key, value) pairs, in the order of the source.
RequestFields(req) ==
    << <<"language_code", MapString(req.language_code)>>,
       <<"tag_audio_events", MapBoolToString(req.tag_audio_events)>>,
       <<"num_speakers", MapU32ToString(req.num_speakers)>>,
       <<"timestamps_granularity", MapString(req.timestamps_granularity)>>,
       <<"diarize", MapBoolToString(req.diarize)>>,
       <<"diarization_threshold", MapF32ToString(req.diarization_threshold)>>,
       <<"cloud_storage_url", MapString(req.cloud_storage_url)>>,
       <<"webhook", MapBoolToString(req.webhook)>>,
       <<"webhook_id", MapString(req.webhook_id)>>,
       <<"temperature", MapF32ToString(req.temperature)>>,
       <<"seed", MapU32ToString(req.seed)>>,
       <<"use_multi_channel", MapBoolToString(req.use_multi_channel)>>,
       <<"webhook_metadata", MapString(req.webhook_metadata)>> >>

\* Faulty variant: the loop ends at the first field that is None.
RECURSIVE AddFields_StopsAtNone(_, _)
AddFields_StopsAtNone(form, fields) ==
    IF fields = <<>> THEN form
    ELSE IF ~IsSome(Head(fields)[2]) THEN form
    ELSE AddFields_StopsAtNone(FormText(form, Head(fields)[1], Unwrap(Head(fields)[2])),
                               Tail(fields))

\* for (key, value) in request_fields { if let Some(val) = value { form.text(key, val) } }
RECURSIVE AddFields(_, _)
AddFields(form, fields) ==
    IF fields = <<>> THEN form
    ELSE LET key == Head(fields)[1]
             value == Head(fields)[2]
         IN AddFields(IF IsSome(value) THEN FormText(form, key, Unwrap(value)) ELSE form,
                      Tail(fields))

\* The form of execute_stt, or the error of its early return.
BuildForm(req) ==
    LET form0 == FormText(<<>>, "model_id", req.model_id)
        part == IF IsSome(req.file)
                THEN mime_str(file_name(BytesPart(Unwrap(req.file)), "file"),
                              "application/octet-stream")
                ELSE [ok |-> TRUE, part |-> None]
        form1 == IF IsSome(req.file) THEN FormPart(form0, "file", part.part) ELSE form0
    IN IF part.ok
       THEN [ok |-> TRUE, form |-> AddFields(form1, RequestFields(req))]
       ELSE [ok |-> FALSE, err |-> part.err]

\* Faulty variant: the production URL is used whatever the client's base_url.
PostRequest_ProductionUrl(c, form) ==
    [method |-> "POST",
     url |-> DefaultBaseUrl \o "/speech-to-text",
     headers |-> << <<"xi-api-key", c.api_key>> >>,
     multipart |-> form]

\* client.post(url).header("xi-api-key", api_key).multipart(form)
PostRequest(c, form) ==
    [method |-> "POST",
     url |-> c.base_url \o "/speech-to-text",
     headers |-> << <<"xi-api-key", c.api_key>> >>,
     multipart |-> form]

----------------------------------------------------------------------------
(* ElevenLabsSTTError *)

RequestError(e) == [kind |-> "RequestError", cause |-> e]
ApiError(status, message) == [kind |-> "ApiError", status |-> status, message |-> message]
ParseError(e) == [kind |-> "ParseError", cause |-> e]
AuthenticationError(msg) == [kind |-> "AuthenticationError", message |-> msg]
RateLimitError(retry_after, message) ==
    [kind |-> "RateLimitError", retry_after |-> retry_after, message |-> message]
QuotaExceededError(msg) == [kind |-> "QuotaExceededError", message |-> msg]

\* Faulty variant: an error without a status becomes an ApiError of status 0.
From_NoStatusIsApiError(error) ==
    IF IsSome(error.status)
    THEN ApiError(Unwrap(error.status), "HTTP status error")
    ELSE ApiError(0, "error sending request")

\* impl From<reqwest::Error> for ElevenLabsSTTError, applied by the ? after send()
From(error) ==
    IF IsSome(error.status)
    THEN LET status_code == Unwrap(error.status)
         IN CASE status_code = 401 -> AuthenticationError("Invalid API key")
              [] status_code = 429 -> RateLimitError(None, "Too many requests")
              [] status_code = 402 -> QuotaExceededError("Insufficient credits")
              [] OTHER -> ApiError(status_code, "HTTP status error")
    ELSE RequestError(error)

Ok(v) == [ok |-> TRUE, val |-> v]
Err(e) == [ok |-> FALSE, err |-> e]

----------------------------------------------------------------------------
(* The reply: statuses, bodies, and the decoding of a body as an STTResponse *)

Statuses == {200, 201, 400, 401, 402, 404, 429, 500}

\* Faulty variant: only 200 counts as success.
is_success_Only200(status) == status = 200

\* StatusCode::is_success
is_success(status) == 200 <= status /\ status < 300

BodyHello == "{\"text\":\"hello\"}"
BodyEmptyObject == "{}"
BodyNullText == "{\"text\":null,\"language_code\":\"en\"}"
BodyWords == "{\"language_probability\":0.98,\"words\":[{\"text\":\"hi\",\"start\":0.0,\"end\":0.5,\"type\":\"word\",\"characters\":[{\"text\":\"h\",\"start\":0.0}]}]}"
BodyTextIsNumber == "{\"text\":5}"
BodyPlain == "slow down"

Bodies == {BodyHello, BodyEmptyObject, BodyNullText, BodyWords, BodyTextIsNumber,
           BodyPlain}

\* JSON values
JNull == [t |-> "null"]
JStr(s) == [t |-> "str", v |-> s]
JNum(h) == [t |-> "num", v |-> h]
JArr(a) == [t |-> "arr", v |-> a]
JObj(o) == [t |-> "obj", v |-> o]

\* The JSON value a body text parses to, or the syntax error.
ParseJson(text) ==
    CASE text = BodyHello -> Ok(JObj([text |-> JStr("hello")]))
      [] text = BodyEmptyObject -> Ok(JObj(<<>>))
      [] text = BodyNullText -> Ok(JObj([text |-> JNull, language_code |-> JStr("en")]))
      [] text = BodyWords ->
            Ok(JObj([language_probability |-> JNum(98),
                     words |-> JArr(<< JObj([text |-> JStr("hi"), start |-> JNum(0),
                                            end |-> JNum(50), type |-> JStr("word"),
                                            characters |-> JArr(<< JObj([text |-> JStr("h"),
                                                                        start |-> JNum(0)]) >>)]) >>)]))
      [] text = BodyTextIsNumber -> Ok(JObj([text |-> JNum(500)]))
      [] OTHER -> Err("syntax")

\* A struct field of type Option<T>: a missing key and a null are both None.
Field(obj, key) == IF key \in DOMAIN obj.v THEN obj.v[key] ELSE JNull

OptScalar(j, t) ==
    IF j.t = "null" THEN Ok(None)
    ELSE IF j.t = t THEN Ok(Some(j.v))
    ELSE Err("data")

\* Option<Vec<T>> from the decoded elements of an array
OptVec(j, rs) ==
    IF \A i \in 1..Len(j.v) : rs[i].ok
    THEN Ok(Some([i \in 1..Len(j.v) |-> rs[i].val]))
    ELSE Err("data")

\* #[derive(Deserialize)] of STTResponseWordCharacters
STTResponseWordCharacters(j) ==
    IF j.t # "obj" THEN Err("data")
    ELSE LET text == OptScalar(Field(j, "text"), "str")
             start == OptScalar(Field(j, "start"), "num")
             end == OptScalar(Field(j, "end"), "num")
         IN IF text.ok /\ start.ok /\ end.ok
            THEN Ok([text |-> text.val, start |-> start.val, end |-> end.val])
            ELSE Err("data")

\* #[derive(Deserialize)] of STTResponseWord: type_field is the key "type"
STTResponseWord(j) ==
    IF j.t # "obj" THEN Err("data")
    ELSE LET text == OptScalar(Field(j, "text"), "str")
             start == OptScalar(Field(j, "start"), "num")
             end == OptScalar(Field(j, "end"), "num")
             logprob == OptScalar(Field(j, "logprob"), "num")
             type_field == OptScalar(Field(j, "type"), "str")
             speaker_id == OptScalar(Field(j, "speaker_id"), "str")
             cs == Field(j, "characters")
             characters ==
                 IF cs.t = "null" THEN Ok(None)
                 ELSE IF cs.t # "arr" THEN Err("data")
                 ELSE OptVec(cs, [i \in 1..Len(cs.v) |-> STTResponseWordCharacters(cs.v[i])])
         IN IF text.ok /\ start.ok /\ end.ok /\ logprob.ok /\ type_field.ok
               /\ speaker_id.ok /\ characters.ok
            THEN Ok([text |-> text.val, start |-> start.val, end |-> end.val,
                     logprob |-> logprob.val, type_field |-> type_field.val,
                     speaker_id |-> speaker_id.val, characters |-> characters.val])
            ELSE Err("data")

\* #[derive(Deserialize)] of STTResponse
STTResponse(j) ==
    IF j.t # "obj" THEN Err("data")
    ELSE LET text == OptScalar(Field(j, "text"), "str")
             lang == OptScalar(Field(j, "language_code"), "str")
             prob == OptScalar(Field(j, "language_probability"), "num")
             ws == Field(j, "words")
             words ==
                 IF ws.t = "null" THEN Ok(None)
                 ELSE IF ws.t # "arr" THEN Err("data")
                 ELSE OptVec(ws, [i \in 1..Len(ws.v) |-> STTResponseWord(ws.v[i])])
         IN IF text.ok /\ lang.ok /\ prob.ok /\ words.ok
            THEN Ok([text |-> text.val, language_code |-> lang.val,
                     language_probability |-> prob.val, words |-> words.val])
            ELSE Err("data")

\* response.text(): the body as text, or the error of reading it
text(body, read_ok) == IF read_ok THEN Ok(body) ELSE Err(ReqwestError("body"))

\* Result<String, _>::unwrap_or_default
unwrap_or_default(r) == IF r.ok THEN r.val ELSE ""

\* response.json::<STTResponse>(): read the body, then decode it
json(body, read_ok) ==
    IF ~read_ok THEN Err(ReqwestError("body"))
    ELSE LET parsed == ParseJson(body)
         IN IF ~parsed.ok THEN Err(ReqwestError("decode"))
            ELSE LET decoded == STTResponse(parsed.val)
                 IN IF decoded.ok THEN Ok(decoded.val) ELSE Err(ReqwestError("decode"))

----------------------------------------------------------------------------
(* execute() and execute_stt, one action per stretch between two awaits *)

TransportFailures == {"connect", "timeout", "tls"}

\* builder.execute(): finalize the request, build the form and hand the POST to
\* send().  The builder is consumed.
execute ==
    /\ pc = "building"
    /\ LET b == Unwrap(builder)
           req == BuildRequest(b)
           form == BuildForm(req)
       IN IF form.ok
          THEN /\ request' = Some(req)
               /\ sent' = Some(PostRequest(b.client, form.form))
               /\ http_calls' = http_calls + 1
               /\ result' = None
               /\ pc' = "awaiting_send"
          ELSE /\ request' = Some(req)
               /\ sent' = None
               /\ http_calls' = http_calls
               /\ result' = Some(Err(RequestError(form.err)))
               /\ pc' = "done"
    /\ builder' = None
    /\ UNCHANGED <<client, ctor, file_arg, history, response, steps>>
    /\ UNCHANGED others

\* send().await fails: no response exists, the ? converts the error and returns.
\* The request, moved into the form and the form into send(), is gone.
send_fails ==
    /\ pc = "awaiting_send"
    /\ \E what \in TransportFailures :
          result' = Some(Err(From(ReqwestError(what))))
    /\ pc' = "done"
    /\ request' = None
    /\ sent' = None
    /\ file_arg' = None
    /\ history' = <<>>
    /\ UNCHANGED <<client, ctor, builder, http_calls, response, steps>>
    /\ UNCHANGED others

\* send().await yields a response; its status is looked at straight away.
send_responds ==
    /\ pc = "awaiting_send"
    /\ \E status \in Statuses, body \in Bodies :
          response' = Some([status |-> status, body |-> body, read |-> "pending"])
    /\ steps' = steps \cup {"status_check"}
    /\ pc' = "responded"
    /\ request' = None
    /\ sent' = None
    /\ file_arg' = None
    /\ history' = <<>>
    /\ UNCHANGED <<client, ctor, builder, http_calls, result>>
    /\ UNCHANGED others

BodyRead(read_ok) == IF read_ok THEN "ok" ELSE "failed"

\* Faulty variant: the message is the text of the status, not the body.
ErrorReturn_StatusText(status, body, read_ok) ==
    Err(ApiError(status, "HTTP status error"))

ErrorReturn(status, body, read_ok) ==
    Err(ApiError(status, unwrap_or_default(text(body, read_ok))))

\* !status.is_success(): response.text().await, then return the ApiError
read_error_body ==
    /\ pc = "responded"
    /\ ~is_success(Unwrap(response).status)
    /\ \E read_ok \in BOOLEAN :
          /\ result' = Some(ErrorReturn(Unwrap(response).status, Unwrap(response).body,
                                        read_ok))
          /\ response' = Some([Unwrap(response) EXCEPT !.read = BodyRead(read_ok)])
    /\ steps' = steps \cup {"text"}
    /\ pc' = "done"
    /\ UNCHANGED <<client, ctor, builder, file_arg, history, request, sent, http_calls>>
    /\ UNCHANGED others

\* Faulty variant: a body that does not decode gives an empty response.
SuccessReturn_Defaulted(body, read_ok) ==
    LET parse_response == json(body, read_ok)
    IN IF parse_response.ok THEN Ok(parse_response.val)
       ELSE Ok([text |-> None, language_code |-> None, language_probability |-> None,
                words |-> None])

SuccessReturn(body, read_ok) ==
    LET parse_response == json(body, read_ok)
    IN IF parse_response.ok THEN Ok(parse_response.val)
       ELSE Err(ParseError(parse_response.err))

\* status.is_success(): response.json::<STTResponse>().await, then return
read_json ==
    /\ pc = "responded"
    /\ is_success(Unwrap(response).status)
    /\ \E read_ok \in BOOLEAN :
          /\ result' = Some(SuccessReturn(Unwrap(response).body, read_ok))
          /\ response' = Some([Unwrap(response) EXCEPT !.read = BodyRead(read_ok)])
    /\ steps' = steps \cup {"json"}
    /\ pc' = "done"
    /\ UNCHANGED <<client, ctor, builder, file_arg, history, request, sent, http_calls>>
    /\ UNCHANGED others

----------------------------------------------------------------------------
(* Concurrent calls: tasks that each chain a builder from the one client and  *)
(* execute it, interleaved at the awaits.                                     *)

Tasks == 1..NumCalls

\* A task that has not called speech_to_text yet.
IdleTask ==
    [pc |-> "idle", builder |-> None, args |-> None, sent |-> None, response |-> None,
     result |-> None]

\* What the tasks are given: one payload or none, and the replies they can get.
TaskPayloads == {<<73, 68, 51>>}
TaskStatuses == {200, 500}
TaskBodies == {BodyHello, BodyPlain}
TaskFailures == {"timeout"}

\* What the concurrent calls leave alone.
sequential == <<pc, client, ctor, builder, file_arg, history, request, sent, http_calls,
                response, steps, result, codec, shown>>

TaskStep(i, rec) ==
    /\ calls' = [calls EXCEPT ![i] = rec]
    /\ UNCHANGED sequential

\* client.speech_to_text(file) by task i: a builder with its own clone of the client
task_speech_to_text(i) ==
    /\ pc = "ready"
    /\ calls[i].pc \in {"idle", "done"}
    /\ \E f \in {None} \cup {Some(p) : p \in TaskPayloads} :
          TaskStep(i, [pc |-> "building",
                       builder |-> Some(NewBuilder(Unwrap(client), f)),
                       args |-> Some([file |-> f, model |-> None, language_code |-> None]),
                       sent |-> None, response |-> None, result |-> None])

\* .model(v) by task i
task_model(i) ==
    /\ calls[i].pc = "building"
    /\ \E v \in ModelIds :
          TaskStep(i, [calls[i] EXCEPT
                          !.builder = Some(SetModel(Unwrap(calls[i].builder), v)),
                          !.args = Some([Unwrap(calls[i].args) EXCEPT !.model = Some(v)])])

\* .language_code(v) by task i
task_language_code(i) ==
    /\ calls[i].pc = "building"
    /\ \E v \in LanguageCodes :
          TaskStep(i, [calls[i] EXCEPT
                          !.builder = Some(SetLanguageCode(Unwrap(calls[i].builder), v)),
                          !.args = Some([Unwrap(calls[i].args) EXCEPT
                                            !.language_code = Some(v)])])

\* .execute() by task i, up to send()
task_execute(i) ==
    /\ calls[i].pc = "building"
    /\ LET b == Unwrap(calls[i].builder)
           form == BuildForm(BuildRequest(b))
       IN IF form.ok
          THEN TaskStep(i, [calls[i] EXCEPT
                               !.pc = "awaiting_send", !.builder = None,
                               !.sent = Some(PostRequest(b.client, form.form))])
          ELSE TaskStep(i, [calls[i] EXCEPT
                               !.pc = "done", !.builder = None,
                               !.result = Some(Err(RequestError(form.err)))])

\* send().await of task i fails
task_send_fails(i) ==
    /\ calls[i].pc = "awaiting_send"
    /\ \E what \in TaskFailures :
          TaskStep(i, [calls[i] EXCEPT
                          !.pc = "done", !.args = None, !.sent = None,
                          !.result = Some(Err(From(ReqwestError(what))))])

\* send().await of task i yields a response
task_send_responds(i) ==
    /\ calls[i].pc = "awaiting_send"
    /\ \E status \in TaskStatuses, body \in TaskBodies :
          TaskStep(i, [calls[i] EXCEPT
                          !.pc = "responded", !.args = None, !.sent = None,
                          !.response = Some([status |-> status, body |-> body,
                                             read |-> "pending"])])

\* the non-success branch of task i
task_read_error_body(i) ==
    /\ calls[i].pc = "responded"
    /\ ~is_success(Unwrap(calls[i].response).status)
    /\ \E read_ok \in BOOLEAN :
          LET r == Unwrap(calls[i].response)
          IN TaskStep(i, [calls[i] EXCEPT
                             !.pc = "done",
                             !.response = Some([r EXCEPT !.read = BodyRead(read_ok)]),
                             !.result = Some(ErrorReturn(r.status, r.body, read_ok))])

\* the success branch of task i
task_read_json(i) ==
    /\ calls[i].pc = "responded"
    /\ is_success(Unwrap(calls[i].response).status)
    /\ \E read_ok \in BOOLEAN :
          LET r == Unwrap(calls[i].response)
          IN TaskStep(i, [calls[i] EXCEPT
                             !.pc = "done",
                             !.response = Some([r EXCEPT !.read = BodyRead(read_ok)]),
                             !.result = Some(SuccessReturn(r.body, read_ok))])

----------------------------------------------------------------------------
(* The response model as JSON: #[derive(Serialize)] with skip_serializing_if  *)
(* on every field, and the way back through #[derive(Deserialize)]            *)

\* f32::INFINITY, as the one number of the model that is not finite (NaN is
\* written the same way).
F32Infinity == 1000000

\* How the JSON serializer writes an f32: a number that is not finite has no JSON
\* form and is written as null.
SerializeF32(h) == IF h = F32Infinity THEN JNull ELSE JNum(h)

\* The JSON key of a struct field: #[serde(rename = "type")] on type_field
Key(field) == IF field = "type_field" THEN "type" ELSE field

\* skip_serializing_if = "Option::is_none": the fields that are written
Present(rec, fields) == {f \in fields : IsSome(rec[f])}

CharacterFields == {"text", "start", "end"}
WordFields == {"text", "start", "end", "logprob", "type_field", "speaker_id",
               "characters"}
ResponseFields == {"text", "language_code", "language_probability", "words"}
StringFields == {"text", "language_code", "type_field", "speaker_id"}
FloatFields == {"start", "end", "logprob", "language_probability"}

\* The value a scalar field is written as; a field that is None is null.
SerializeScalar(rec, f) ==
    IF ~IsSome(rec[f]) THEN JNull
    ELSE IF f \in StringFields THEN JStr(Unwrap(rec[f]))
    ELSE SerializeF32(Unwrap(rec[f]))

\* #[derive(Serialize)] of STTResponseWordCharacters
SerializeCharacters(c) ==
    LET fs == Present(c, CharacterFields)
    IN JObj([k \in {Key(f) : f \in fs} |->
                SerializeScalar(c, CHOOSE f \in fs : Key(f) = k)])

SerializeCharactersVec(o) ==
    IF ~IsSome(o) THEN JNull
    ELSE JArr([i \in 1..Len(Unwrap(o)) |-> SerializeCharacters(Unwrap(o)[i])])

\* Faulty variant: type_field is written under its own name.
SerializeWord_NoRename(w) ==
    LET fs == Present(w, WordFields)
    IN JObj([k \in fs |->
                IF k = "characters" THEN SerializeCharactersVec(w.characters)
                ELSE SerializeScalar(w, k)])

\* #[derive(Serialize)] of STTResponseWord
SerializeWord(w) ==
    LET fs == Present(w, WordFields)
    IN JObj([k \in {Key(f) : f \in fs} |->
                LET f == CHOOSE g \in fs : Key(g) = k
                IN IF f = "characters" THEN SerializeCharactersVec(w.characters)
                   ELSE SerializeScalar(w, f)])

SerializeWordVec(o) ==
    IF ~IsSome(o) THEN JNull
    ELSE JArr([i \in 1..Len(Unwrap(o)) |-> SerializeWord(Unwrap(o)[i])])

\* #[derive(Serialize)] of STTResponse
SerializeResponse(r) ==
    LET fs == Present(r, ResponseFields)
    IN JObj([k \in {Key(f) : f \in fs} |->
                LET f == CHOOSE g \in fs : Key(g) = k
                IN IF f = "words" THEN SerializeWordVec(r.words)
                   ELSE SerializeScalar(r, f)])

\* The responses that are encoded: every field absent, every field present, and
\* floats that are not finite.
CharacterValues ==
    {[text |-> None, start |-> None, end |-> None],
     [text |-> Some("h"), start |-> Some(0), end |-> Some(50)],
     [text |-> Some("h"), start |-> None, end |-> None],
     [text |-> None, start |-> Some(F32Infinity), end |-> Some(50)]}

RECURSIVE SeqsUpTo(_, _)
SeqsUpTo(S, n) ==
    IF n = 0 THEN {<< >>}
    ELSE LET shorter == SeqsUpTo(S, n - 1)
         IN shorter \cup {Append(q, x) : q \in shorter, x \in S}

OptionalVecs(S, n) == {None} \cup {Some(q) : q \in SeqsUpTo(S, n)}

WordValues ==
    {[text |-> None, start |-> None, end |-> None, logprob |-> None,
      type_field |-> None, speaker_id |-> None, characters |-> cs] :
        cs \in OptionalVecs(CharacterValues, MaxCharacters)}
    \cup
    {[text |-> Some("hi"), start |-> Some(0), end |-> Some(50), logprob |-> Some(12),
      type_field |-> Some("word"), speaker_id |-> Some("speaker_0"),
      characters |-> cs] :
        cs \in OptionalVecs(CharacterValues, MaxCharacters)}
    \cup
    {[text |-> None, start |-> None, end |-> None, logprob |-> None,
      type_field |-> Some("spacing"), speaker_id |-> None, characters |-> None],
     [text |-> Some("hi"), start |-> None, end |-> None,
      logprob |-> Some(F32Infinity), type_field |-> None, speaker_id |-> None,
      characters |-> None]}

ResponseValues ==
    {[text |-> t.text, language_code |-> t.language_code,
      language_probability |-> t.language_probability, words |-> ws] :
        t \in {[text |-> None, language_code |-> None, language_probability |-> None],
               [text |-> Some("hello"), language_code |-> Some("en"),
                language_probability |-> Some(98)],
               [text |-> Some("hello"), language_code |-> None,
                language_probability |-> None],
               [text |-> None, language_code |-> None,
                language_probability |-> Some(F32Infinity)]},
        ws \in OptionalVecs(WordValues, MaxWords)}

\* Encode the response to JSON.
to_json ==
    /\ IsSome(codec)
    /\ Unwrap(codec).pc = "value"
    /\ codec' = Some([Unwrap(codec) EXCEPT
                         !.pc = "encoded",
                         !.encoded = Some(SerializeResponse(Unwrap(codec).value))])
    /\ UNCHANGED <<pc, client, ctor, builder, file_arg, history, request, sent,
                   http_calls, response, steps, result, calls, shown>>

\* Decode the JSON back into an STTResponse.
from_json ==
    /\ IsSome(codec)
    /\ Unwrap(codec).pc = "encoded"
    /\ codec' = Some([Unwrap(codec) EXCEPT
                         !.pc = "decoded",
                         !.decoded = Some(STTResponse(Unwrap(Unwrap(codec).encoded)))])
    /\ UNCHANGED <<pc, client, ctor, builder, file_arg, history, request, sent,
                   http_calls, response, steps, result, calls, shown>>

----------------------------------------------------------------------------
(* impl fmt::Display for ElevenLabsSTTError *)

ValidationError(msg) == [kind |-> "ValidationError", message |-> msg]

\* Display of the reqwest::Error an error wraps
ReqwestDisplay(e) ==
    CASE e.what = "builder" -> "builder error"
      [] e.what = "body" -> "request or response body error"
      [] e.what = "decode" -> "error decoding response body"
      [] OTHER -> "error sending request"

\* Faulty variant: the delay is left out even when there is one.
fmt_rate_limit_NoDelay(retry_after, message) == "Rate limit exceeded: " \o message

\* the RateLimitError arm: match retry_after
fmt_rate_limit(retry_after, message) ==
    IF IsSome(retry_after)
    THEN "Rate limit exceeded (retry in " \o U32ToString(Unwrap(retry_after)) \o "s): "
         \o message
    ELSE "Rate limit exceeded: " \o message

fmt(e) ==
    CASE e.kind = "RequestError" -> "Request failed: " \o ReqwestDisplay(e.cause)
      [] e.kind = "ApiError" ->
            "API error (" \o U32ToString(e.status) \o "): " \o e.message
      [] e.kind = "ParseError" -> "Failed to parse response: " \o ReqwestDisplay(e.cause)
      [] e.kind = "AuthenticationError" -> "Authentication failed: " \o e.message
      [] e.kind = "RateLimitError" -> fmt_rate_limit(e.retry_after, e.message)
      [] e.kind = "QuotaExceededError" -> "Quota exceeded: " \o e.message
      [] e.kind = "ValidationError" -> "Validation error: " \o e.message

\* The errors that are displayed.
Messages == {"", "Invalid voice ID", "Too many requests", "slow down"}
RetryAfters == {None, Some(0), Some(30)}

ErrorValues ==
    {RequestError(ReqwestError(w)) : w \in TransportFailures \cup {"builder"}}
    \cup {ParseError(ReqwestError(w)) : w \in {"body", "decode"}}
    \cup {ApiError(st, m) : st \in Statuses, m \in Messages}
    \cup {AuthenticationError(m) : m \in Messages}
    \cup {RateLimitError(ra, m) : ra \in RetryAfters, m \in Messages}
    \cup {QuotaExceededError(m) : m \in Messages}
    \cup {ValidationError(m) : m \in Messages}

\* format!("{}", error)
to_string ==
    /\ IsSome(shown)
    /\ Unwrap(shown).pc = "value"
    /\ shown' = Some([Unwrap(shown) EXCEPT
                         !.pc = "shown", !.text = Some(fmt(Unwrap(shown).error))])
    /\ UNCHANGED <<pc, client, ctor, builder, file_arg, history, request, sent,
                   http_calls, response, steps, result, calls, codec>>

----------------------------------------------------------------------------
(* The specification *)

Quiescent ==
    /\ pc = "start"
    /\ client = None
    /\ ctor = None
    /\ builder = None
    /\ file_arg = None
    /\ history = <<>>
    /\ request = None
    /\ sent = None
    /\ http_calls = 0
    /\ response = None
    /\ steps = {}
    /\ result = None
    /\ calls = [i \in Tasks |-> IdleTask]

Init ==
    /\ Quiescent
    /\ codec = None
    /\ shown = None

Next ==
    \/ new
    \/ with_base_url
    \/ speech_to_text
    \/ model
    \/ language_code
    \/ tag_audio_events
    \/ num_speakers
    \/ timestamps_granularity
    \/ diarize
    \/ diarization_threshold
    \/ cloud_storage_url
    \/ webhook
    \/ webhook_id
    \/ temperature
    \/ seed
    \/ use_multi_channel
    \/ webhook_metadata
    \/ execute
    \/ send_fails
    \/ send_responds
    \/ read_error_body
    \/ read_json

Spec == Init /\ [][Next]_vars

\* One client, constructed once, and NumCalls tasks calling it concurrently.
NextConcurrent ==
    \/ new
    \/ with_base_url
    \/ \E i \in Tasks : task_speech_to_text(i)
    \/ \E i \in Tasks : task_model(i)
    \/ \E i \in Tasks : task_language_code(i)
    \/ \E i \in Tasks : task_execute(i)
    \/ \E i \in Tasks : task_send_fails(i)
    \/ \E i \in Tasks : task_send_responds(i)
    \/ \E i \in Tasks : task_read_error_body(i)
    \/ \E i \in Tasks : task_read_json(i)

SpecConcurrent == Init /\ [][NextConcurrent]_vars

\* A response of ResponseValues, encoded and decoded back.
InitCodec ==
    /\ Quiescent
    /\ shown = None
    /\ \E r \in ResponseValues :
          codec = Some([pc |-> "value", value |-> r, encoded |-> None, decoded |-> None])

NextCodec ==
    \/ to_json
    \/ from_json

SpecCodec == InitCodec /\ [][NextCodec]_vars

\* An error of ErrorValues, formatted.
InitDisplay ==
    /\ Quiescent
    /\ codec = None
    /\ \E e \in ErrorValues :
          shown = Some([pc |-> "value", error |-> e, text |-> None])

NextDisplay == to_string

SpecDisplay == InitDisplay /\ [][NextDisplay]_vars

TypeOK ==
    /\ pc \in {"start", "ready", "building", "awaiting_send", "responded", "done"}
    /\ http_calls \in 0..1
    /\ Len(history) <= MaxSetterCalls

----------------------------------------------------------------------------
(* Properties of the reply handling *)

\* execute() has returned.
Returned == pc = "done" /\ IsSome(result)

\* execute() has returned after the server answered with a status.
Answered == Returned /\ IsSome(response)

Status == Unwrap(response).status
Body == Unwrap(response).body
Outcome == Unwrap(result)

SuccessStatus == Status \in 200..299

\* The bodies of the model that are a JSON object whose known keys hold a value
\* of the field's type or null.
DecodableBodies == {BodyHello, BodyEmptyObject, BodyNullText, BodyWords}

Decoded == Unwrap(response).read = "ok" /\ Body \in DecodableBodies

\* C1: a call answered with status 401 returns an AuthenticationError, one answered
\* with 402 a QuotaExceededError, and one answered with 429 a RateLimitError with
\* no retry_after and the message "Too many requests", whatever the body.
C1_StatusSpecificErrors ==
    (Answered /\ ~SuccessStatus) =>
        /\ ~Outcome.ok
        /\ Status = 401 => Outcome.err.kind = "AuthenticationError"
        /\ Status = 402 => Outcome.err.kind = "QuotaExceededError"
        /\ Status = 429 => Outcome.err = RateLimitError(None, "Too many requests")

\* C2 as stated: a call answered with a non-success status other than 401, 402 and
\* 429 returns an ApiError with that status and the body of the response as message.
C2_ApiErrorCarriesBody ==
    (Answered /\ ~SuccessStatus /\ Status \notin {401, 402, 429}) =>
        /\ ~Outcome.ok
        /\ Outcome.err = [kind |-> "ApiError", status |-> Status, message |-> Body]

\* C2 as amended: such a call returns an ApiError with that status, whose message
\* is the body when the body was read, and the empty string when reading it failed.
C2_ApiErrorCarriesReadBody ==
    (Answered /\ ~SuccessStatus /\ Status \notin {401, 402, 429}) =>
        /\ ~Outcome.ok
        /\ Outcome.err = [kind |-> "ApiError", status |-> Status,
                          message |-> IF Unwrap(response).read = "ok" THEN Body ELSE ""]

C2_Witness ==
    /\ Answered
    /\ Status = 500
    /\ Body = BodyPlain
    /\ Outcome = Err([kind |-> "ApiError", status |-> 500, message |-> "slow down"])

\* C3: a call answered with a success status whose body does not decode as an
\* STTResponse returns a ParseError that wraps the cause; it returns neither a
\* response nor another kind of error.
C3_UndecodableIsParseError ==
    (Answered /\ SuccessStatus /\ ~Decoded) =>
        /\ ~Outcome.ok
        /\ Outcome.err.kind = "ParseError"
        /\ Outcome.err.cause.what =
              (IF Unwrap(response).read = "ok" THEN "decode" ELSE "body")

C3_Witness ==
    /\ Answered
    /\ Status = 200
    /\ Body = BodyTextIsNumber
    /\ Unwrap(response).read = "ok"
    /\ Outcome = Err([kind |-> "ParseError",
                      cause |-> [what |-> "decode", status |-> None]])

\* C4: a call whose send() failed, so that no status exists, returns a RequestError
\* that carries the transport error, and performs neither the status check nor a
\* read of the body.
C4_TransportFailureIsRequestError ==
    (Returned /\ http_calls = 1 /\ response = None) =>
        /\ ~Outcome.ok
        /\ Outcome.err.kind = "RequestError"
        /\ Outcome.err.cause.what \in {"connect", "timeout", "tls"}
        /\ steps = {}

C4_Witness ==
    /\ Returned
    /\ http_calls = 1
    /\ response = None
    /\ Outcome = Err([kind |-> "RequestError",
                      cause |-> [what |-> "timeout", status |-> None]])
    /\ steps = {}

\* C5: a call of execute() invokes send() exactly once: once execute() has been
\* called the count is one and stays one through every outcome, and before it the
\* count is zero.
C5_ExactlyOneHttpCall ==
    /\ pc \in {"awaiting_send", "responded", "done"} => http_calls = 1
    /\ pc \in {"start", "ready", "building"} => http_calls = 0

\* the call failed on an undecodable body after its one send(), and was not retried
C5_Witness ==
    /\ Returned
    /\ ~Outcome.ok
    /\ Outcome.err.kind = "ParseError"
    /\ http_calls = 1

\* C6: a call that has returned has exactly one outcome, a response or an error; it
\* is a response exactly when the status was a success status and the body decoded.
\* A call that has not returned has no outcome.
C6_OneOutcome ==
    /\ pc = "done" =>
          /\ IsSome(result)
          /\ DOMAIN Outcome \in {{"ok", "val"}, {"ok", "err"}}
          /\ Outcome.ok <=> "val" \in DOMAIN Outcome
          /\ Outcome.ok <=> (IsSome(response) /\ SuccessStatus /\ Decoded)
          /\ Outcome.ok =>
                DOMAIN Outcome.val = {"text", "language_code", "language_probability",
                                      "words"}
    /\ pc # "done" => result = None

C6_Witness ==
    /\ Answered
    /\ Status = 201
    /\ Outcome = Ok([text |-> Some("hello"), language_code |-> None,
                     language_probability |-> None, words |-> None])

----------------------------------------------------------------------------
(* Properties of the builder and of the request on the wire *)

\* The 13 optional scalar fields: a field, its setter and its multipart part have
\* the same name.
OptionalFields ==
    {"language_code", "tag_audio_events", "num_speakers", "timestamps_granularity",
     "diarize", "diarization_threshold", "cloud_storage_url", "webhook", "webhook_id",
     "temperature", "seed", "use_multi_channel", "webhook_metadata"}

\* The value of the last call of a setter in a sequence of calls, None if it was
\* never called.
RECURSIVE LastSet(_, _)
LastSet(h, setter) ==
    IF Len(h) = 0 THEN None
    ELSE IF h[Len(h)][1] = setter THEN Some(h[Len(h)][2])
    ELSE LastSet(SubSeq(h, 1, Len(h) - 1), setter)

InFlight == pc = "awaiting_send" /\ IsSome(sent)

PartsNamed(n) == SelectSeq(Unwrap(sent).multipart, LAMBDA p : p.name = n)

\* C7: after any sequence of setter calls, every field of the builder, and of the
\* request execute() finalizes from it, holds the value of the last call of its
\* setter and is absent if the setter was never called; the payload is the one
\* passed to speech_to_text.  (The model_id of a request whose setter was never
\* called is the subject of C8.)
C7_LastValueWins ==
    /\ pc = "building" =>
          /\ \A f \in OptionalFields : Unwrap(builder)[f] = LastSet(history, f)
          /\ Unwrap(builder).model_id = LastSet(history, "model")
          /\ Unwrap(builder).file = file_arg
    /\ InFlight =>
          /\ \A f \in OptionalFields : Unwrap(request)[f] = LastSet(history, f)
          /\ IsSome(LastSet(history, "model")) =>
                Unwrap(request).model_id = Unwrap(LastSet(history, "model"))
          /\ Unwrap(request).file = file_arg

\* the same setter called twice with different values, no payload
C7_Witness ==
    /\ InFlight
    /\ Len(history) = 2
    /\ history[1][1] = "language_code"
    /\ history[2][1] = "language_code"
    /\ history[1][2] = "en"
    /\ history[2][2] = "fr"
    /\ Unwrap(request).language_code = Some("fr")
    /\ Unwrap(request).diarize = None
    /\ Unwrap(request).file = None

\* C8: the form sent has exactly one part named model_id; its value is scribe_v1
\* if model() was never called, and the value of the last call of model() otherwise.
C8_ModelIdDefault ==
    InFlight =>
        /\ Len(PartsNamed("model_id")) = 1
        /\ PartsNamed("model_id")[1].text =
              (IF IsSome(LastSet(history, "model"))
               THEN LastSet(history, "model")
               ELSE Some("scribe_v1"))

C8_Witness ==
    /\ InFlight
    /\ Len(history) = 2
    /\ LastSet(history, "model") = None
    /\ PartsNamed("model_id") = <<TextPart("model_id", "scribe_v1")>>

\* C9: the form sent has one part named file if a payload was passed to
\* speech_to_text and none otherwise, and for each optional field one part of the
\* field's name if its setter was called and none otherwise; it has the model_id
\* part and no other part.
C9_OnePartPerSetField ==
    InFlight =>
        /\ Len(PartsNamed("file")) = (IF IsSome(file_arg) THEN 1 ELSE 0)
        /\ \A f \in OptionalFields :
              Len(PartsNamed(f)) = (IF IsSome(LastSet(history, f)) THEN 1 ELSE 0)
        /\ Len(Unwrap(sent).multipart) =
              1 + Len(PartsNamed("file"))
                + Cardinality({f \in OptionalFields : IsSome(LastSet(history, f))})

\* diarization_threshold and num_speakers both set, with a payload
C9_Witness ==
    /\ InFlight
    /\ IsSome(file_arg)
    /\ IsSome(LastSet(history, "diarization_threshold"))
    /\ IsSome(LastSet(history, "num_speakers"))
    /\ Len(PartsNamed("file")) = 1
    /\ PartsNamed("diarization_threshold") = <<TextPart("diarization_threshold", "0.22")>>
    /\ PartsNamed("num_speakers") = <<TextPart("num_speakers", "33")>>

\* C10: the request sent is a POST to the base URL followed by /speech-to-text,
\* with the header xi-api-key holding the credential the client was constructed
\* with; the base URL is the production URL for new() and the given URL for
\* with_base_url().
C10_PostToEndpoint ==
    InFlight =>
        /\ Unwrap(sent).method = "POST"
        /\ Unwrap(sent).url =
              (IF Unwrap(ctor).kind = "new"
               THEN "https://api.elevenlabs.io/v1/speech-to-text"
               ELSE Unwrap(Unwrap(ctor).base_url) \o "/speech-to-text")
        /\ Unwrap(sent).headers = << <<"xi-api-key", Unwrap(ctor).api_key>> >>

C10_Witness ==
    /\ InFlight
    /\ Unwrap(ctor).kind = "with_base_url"
    /\ Unwrap(sent).url = "http://localhost:8080/v1/speech-to-text"
    /\ Unwrap(sent).headers = << <<"xi-api-key", "test-key">> >>

----------------------------------------------------------------------------
(* Properties of concurrent calls *)

\* The client the constructor made.
ConstructedClient ==
    [api_key |-> Unwrap(ctor).api_key,
     base_url |-> IF Unwrap(ctor).kind = "new"
                  THEN "https://api.elevenlabs.io/v1"
                  ELSE Unwrap(Unwrap(ctor).base_url)]

\* The parts a task's own arguments call for.
PartsFor(a) ==
    << TextPart("model_id", IF IsSome(a.model) THEN Unwrap(a.model) ELSE "scribe_v1") >>
    \o (IF IsSome(a.file)
        THEN << [name |-> "file", text |-> None, bytes |-> a.file,
                 file_name |-> Some("file"), mime |-> Some("application/octet-stream")] >>
        ELSE << >>)
    \o (IF IsSome(a.language_code)
        THEN << TextPart("language_code", Unwrap(a.language_code)) >>
        ELSE << >>)

\* C11: under every interleaving of the tasks' calls the client keeps the
\* credential and the base URL it was constructed with; each task's builder holds
\* its own copy of that client and the values the task itself gave; the request a
\* task sends is made of its own arguments and that client alone; and two calls
\* that got the same reply returned the same outcome, whatever ran beside them.
C11_CallsAreIndependent ==
    /\ pc # "start" => client = Some(ConstructedClient)
    /\ \A i \in Tasks :
          /\ calls[i].pc = "building" =>
                /\ Unwrap(calls[i].builder).client = ConstructedClient
                /\ Unwrap(calls[i].builder).file = Unwrap(calls[i].args).file
                /\ Unwrap(calls[i].builder).model_id = Unwrap(calls[i].args).model
                /\ Unwrap(calls[i].builder).language_code =
                      Unwrap(calls[i].args).language_code
          /\ calls[i].pc = "awaiting_send" =>
                calls[i].sent =
                    Some([method |-> "POST",
                          url |-> ConstructedClient.base_url \o "/speech-to-text",
                          headers |-> << <<"xi-api-key", ConstructedClient.api_key>> >>,
                          multipart |-> PartsFor(Unwrap(calls[i].args))])
          /\ calls[i].pc = "done" => IsSome(calls[i].result)
          /\ calls[i].pc # "done" => calls[i].result = None
    /\ \A i, j \in Tasks :
          (/\ calls[i].pc = "done"
           /\ calls[j].pc = "done"
           /\ IsSome(calls[i].response)
           /\ calls[i].response = calls[j].response) =>
              calls[i].result = calls[j].result

\* one task has its response while another, with other arguments, is still in flight
C11_Witness ==
    \E i, j \in Tasks :
        /\ i # j
        /\ IsSome(ctor)
        /\ Unwrap(ctor).kind = "with_base_url"
        /\ calls[i].pc = "done"
        /\ IsSome(calls[i].response)
        /\ IsSome(calls[i].result)
        /\ Unwrap(calls[i].result).ok
        /\ calls[j].pc = "awaiting_send"
        /\ IsSome(calls[j].args)
        /\ IsSome(calls[j].sent)
        /\ Unwrap(calls[j].args).language_code = Some("fr")
        /\ Unwrap(calls[j].sent).url = "http://localhost:8080/v1/speech-to-text"
        /\ Len(Unwrap(calls[j].sent).multipart) = 3

----------------------------------------------------------------------------
(* Properties of the response model's JSON form *)

Encoded == IsSome(codec) /\ Unwrap(codec).pc \in {"encoded", "decoded"}
Decoded12 == IsSome(codec) /\ Unwrap(codec).pc = "decoded"

CodecValue == Unwrap(codec).value
CodecJson == Unwrap(Unwrap(codec).encoded)
CodecResult == Unwrap(Unwrap(codec).decoded)

VecOf(o) == IF IsSome(o) THEN Unwrap(o) ELSE << >>

\* No float of the record is infinite.
FiniteFloats(rec, fields) ==
    \A f \in fields \cap FloatFields : rec[f] # Some(F32Infinity)

AllFinite(r) ==
    /\ FiniteFloats(r, ResponseFields)
    /\ \A i \in 1..Len(VecOf(r.words)) :
          /\ FiniteFloats(r.words[1][i], WordFields)
          /\ \A k \in 1..Len(VecOf(r.words[1][i].characters)) :
                FiniteFloats(r.words[1][i].characters[1][k], CharacterFields)

\* A field that is None has no key in the object: it is left out, not null.
AbsentOmitted(rec, obj, fields) ==
    \A f \in fields : ~IsSome(rec[f]) => Key(f) \notin DOMAIN obj.v

AllAbsentOmitted(r, obj) ==
    /\ AbsentOmitted(r, obj, ResponseFields)
    /\ \A i \in 1..Len(VecOf(r.words)) :
          /\ AbsentOmitted(r.words[1][i], obj.v.words.v[i], WordFields)
          /\ \A k \in 1..Len(VecOf(r.words[1][i].characters)) :
                AbsentOmitted(r.words[1][i].characters[1][k],
                              obj.v.words.v[i].v.characters.v[k], CharacterFields)

\* A key the object lacks is None in the decoded record.
LackingIsAbsent(obj, rec, fields) ==
    \A f \in fields : Key(f) \notin DOMAIN obj.v => rec[f] = None

AllLackingAbsent(obj, r) ==
    /\ LackingIsAbsent(obj, r, ResponseFields)
    /\ \A i \in 1..Len(VecOf(r.words)) :
          /\ LackingIsAbsent(obj.v.words.v[i], r.words[1][i], WordFields)
          /\ \A k \in 1..Len(VecOf(r.words[1][i].characters)) :
                LackingIsAbsent(obj.v.words.v[i].v.characters.v[k],
                                r.words[1][i].characters[1][k], CharacterFields)

\* C12 as stated: every STTResponse, encoded to JSON and decoded back, is equal to
\* itself field for field; a field that is None is left out of the JSON, never
\* written as null; a field whose key the JSON lacks decodes as None.
C12_RoundTripOfAnyResponse ==
    /\ Encoded => AllAbsentOmitted(CodecValue, CodecJson)
    /\ Decoded12 =>
          /\ CodecResult = Ok(CodecValue)
          /\ AllLackingAbsent(CodecJson, CodecResult.val)

\* C12 as amended: the same, for every STTResponse whose floats are all finite; the
\* omission of absent fields and the decoding of lacking keys hold of every response.
C12_RoundTripOfFiniteResponse ==
    /\ Encoded => AllAbsentOmitted(CodecValue, CodecJson)
    /\ Decoded12 =>
          /\ CodecResult.ok
          /\ AllFinite(CodecValue) => CodecResult = Ok(CodecValue)
          /\ AllLackingAbsent(CodecJson, CodecResult.val)

\* a response with a word that has a type and a character, and with absent fields
C12_Witness ==
    /\ Decoded12
    /\ AllFinite(CodecValue)
    /\ CodecValue.text = Some("hello")
    /\ CodecValue.language_probability = None
    /\ Len(VecOf(CodecValue.words)) = 1
    /\ CodecValue.words[1][1].type_field = Some("word")
    /\ Len(VecOf(CodecValue.words[1][1].characters)) = 1
    /\ CodecValue.words[1][1].characters[1][1].start = None
    /\ "type" \in DOMAIN CodecJson.v.words.v[1].v
    /\ "language_probability" \notin DOMAIN CodecJson.v
    /\ CodecResult = Ok(CodecValue)

----------------------------------------------------------------------------
(* Properties of the display text *)

Shown == IsSome(shown) /\ Unwrap(shown).pc = "shown"
ShownError == Unwrap(shown).error
ShownText == Unwrap(Unwrap(shown).text)

\* The fixed words each kind of error starts its text with.
PrefixOf(kind) ==
    CASE kind = "RequestError" -> "Request failed"
      [] kind = "ApiError" -> "API error"
      [] kind = "ParseError" -> "Failed to parse response"
      [] kind = "AuthenticationError" -> "Authentication failed"
      [] kind = "RateLimitError" -> "Rate limit exceeded"
      [] kind = "QuotaExceededError" -> "Quota exceeded"
      [] kind = "ValidationError" -> "Validation error"

Seconds(n) == CASE n = 0 -> "0" [] n = 30 -> "30"
Code(st) == CASE st = 200 -> "200" [] st = 201 -> "201" [] st = 400 -> "400"
              [] st = 401 -> "401" [] st = 402 -> "402" [] st = 404 -> "404"
              [] st = 429 -> "429" [] st = 500 -> "500"

\* C13: the text of an error is the fixed prefix of its kind followed by what it
\* carries: for the kinds that carry a message, the prefix, ": " and the message (an
\* ApiError with its status in brackets after the prefix); for a RateLimitError
\* the delay "(retry in Ns)" stands after the prefix exactly when retry_after is
\* present; for the kinds that wrap a cause, the prefix, ": " and the cause's text.
C13_DisplayIsPrefixAndPayload ==
    Shown =>
        LET e == ShownError
            p == PrefixOf(e.kind)
        IN /\ e.kind \in {"AuthenticationError", "QuotaExceededError", "ValidationError"}
                 => ShownText = p \o ": " \o e.message
           /\ e.kind = "ApiError"
                 => ShownText = p \o " (" \o Code(e.status) \o "): " \o e.message
           /\ e.kind = "RateLimitError"
                 => /\ IsSome(e.retry_after) =>
                          ShownText = p \o " (retry in " \o Seconds(Unwrap(e.retry_after))
                                        \o "s): " \o e.message
                    /\ ~IsSome(e.retry_after) => ShownText = p \o ": " \o e.message
                    /\ IsSome(e.retry_after) <=>
                          Len(ShownText) > Len(p \o ": " \o e.message)
           /\ e.kind \in {"RequestError", "ParseError"}
                 => /\ Len(ShownText) > Len(p \o ": ")
                    /\ ShownText = p \o ": " \o ReqwestDisplay(e.cause)

\* the error of the test, and its text
C13_Witness ==
    /\ Shown
    /\ ShownError = [kind |-> "ValidationError", message |-> "Invalid voice ID"]
    /\ ShownText = "Validation error: Invalid voice ID"

\* a rate limit with a delay, and its text
C13_WitnessDelay ==
    /\ Shown
    /\ ShownError.kind = "RateLimitError"
    /\ ShownError.retry_after = Some(30)
    /\ ShownText = "Rate limit exceeded (retry in 30s): Too many requests"

====
